---- MODULE Spec2Model ----
(***************************************************************************)
(* Intake reconciliation of lamar-backend (patients/api.py).               *)
(*                                                                         *)
(* The store is the three Django tables Provider, Patient and Order.  A    *)
(* row's id is its position in the table's sequence (AutoField, no row is  *)
(* ever deleted).  Strings are sequences of one-character strings so that  *)
(* str.lower() and __iexact are computed character by character.           *)
(* Order.created_at (the wall clock at insertion) is read by no handler    *)
(* modelled here and is left out of the Order rows; order_origin records,  *)
(* for each Order, the operation that inserted it.                         *)
(*                                                                         *)
(* Spec      one client, one request at a time: every handler runs to      *)
(*           completion and its response is received before the next call. *)
(* SpecConc  two intake requests whose queries interleave (Django          *)
(*           autocommit: every ORM query is its own transaction).          *)
(* SpecConcSeeded  the same, starting from a store that holds a patient.   *)
(* SpecClient  one client that, after a few arbitrary calls, submits one   *)
(*           intake request again and again, either unchanged or with the  *)
(*           confirmation flags its last 422 asked for.                    *)
(***************************************************************************)
EXTENDS Integers, Sequences, FiniteSets, TLC

VARIABLES providers, patients, orders, order_origin, last, calls, proc,
          client

vars ==
    <<providers, patients, orders, order_origin, last, calls, proc, client>>

(***************************************************************************)
(* Bounds                                                                  *)
(***************************************************************************)
MaxCalls == 2
MaxOrders == 3
MaxConcCalls == 2
MaxPrefixCalls == 1
MaxSubmits == 3

(***************************************************************************)
(* Strings                                                                 *)
(***************************************************************************)
LowerChar(ch) ==
    CASE ch = "A" -> "a"
      [] ch = "B" -> "b"
      [] ch = "D" -> "d"
      [] ch = "I" -> "i"
      [] ch = "R" -> "r"
      [] ch = "V" -> "v"
      [] OTHER -> ch

Lower(s) == [i \in DOMAIN s |-> LowerChar(s[i])]

IExact(a, b) == Lower(a) = Lower(b)

Digits == {"0", "1", "2", "3", "4", "5", "6", "7", "8", "9"}

IsDigits(s, n) == Len(s) = n /\ \A i \in DOMAIN s : s[i] \in Digits

MrnValid(mrn) == IsDigits(mrn, 6)

NpiValid(npi) == IsDigits(npi, 10)

FullName(first, last_name) == first \o <<" ">> \o last_name

(***************************************************************************)
(* Request values                                                          *)
(***************************************************************************)
PatientNames ==
    { <<<<"A", "l">>, <<"D", "o">>>>,
      <<<<"a", "l">>, <<"d", "o">>>>,
      <<<<"A", "l">>, <<"R", "o">>>> }

ProviderNames == { <<"D", "r", "A">>, <<"d", "r", "a">>, <<"D", "r", "B">> }

Medications == { <<"I", "V">>, <<"i", "v">>, <<"A", "s">> }

GoodMrn == <<"1", "2", "3", "4", "5", "6">>

OtherMrn == <<"7", "8", "9", "0", "1", "2">>

BadMrn == <<"1", "2", "3", "4", "5">>

GoodNpi == <<"1", "2", "3", "4", "5", "6", "7", "8", "9", "0">>

OtherNpi == <<"9", "9", "9", "9", "9", "9", "9", "9", "9", "9">>

BadNpi == <<"1", "2", "3", "4", "5", "6", "7", "8", "9">>

Mrns == {GoodMrn, BadMrn}

Npis == {GoodNpi, BadNpi}

Payload(nm, m, rp, n, med, cpat, cprov, cord) ==
    [first_name |-> nm[1], last_name |-> nm[2], mrn |-> m,
     primary_diagnosis |-> <<"G", "7", "0">>,
     referring_provider |-> rp, provider_npi |-> n, medication_name |-> med,
     additional_diagnoses |-> <<>>, medication_history |-> <<>>,
     records_text |-> <<>>,
     confirm_patient_name_mismatch |-> cpat,
     confirm_provider_name_mismatch |-> cprov,
     confirm_duplicate_order |-> cord]

\* every combination of names, medication and flags for the well-formed
\* identifiers, requests with a malformed MRN or NPI, a second patient, and
\* the first patient under a second provider
PatientIn ==
    { Payload(nm, GoodMrn, rp, GoodNpi, med, cpat, cprov, cord) :
        nm \in PatientNames, rp \in ProviderNames, med \in Medications,
        cpat \in BOOLEAN, cprov \in BOOLEAN, cord \in BOOLEAN }
    \cup
    { Payload(<<<<"A", "l">>, <<"D", "o">>>>, ids[1], rp, ids[2], <<"I", "V">>,
              cpat, cprov, cord) :
        ids \in (Mrns \X Npis) \ {<<GoodMrn, GoodNpi>>},
        rp \in {<<"D", "r", "A">>, <<"D", "r", "B">>},
        cpat \in BOOLEAN, cprov \in BOOLEAN, cord \in BOOLEAN }
    \cup
    { Payload(<<<<"A", "l">>, <<"R", "o">>>>, OtherMrn, <<"D", "r", "A">>,
              GoodNpi, <<"I", "V">>, FALSE, FALSE, FALSE),
      Payload(<<<<"A", "l">>, <<"D", "o">>>>, GoodMrn, <<"D", "r", "B">>,
              OtherNpi, <<"A", "s">>, FALSE, FALSE, FALSE) }

ProviderIn == { [name |-> nm, npi |-> n] : nm \in ProviderNames, n \in Npis }

OrderIn ==
    { [patient_id |-> pid, medication_name |-> med] :
      pid \in 1..2, med \in Medications }

\* GET /patients/{patient_id}/orders/{order_id}/care-plan; generated tells
\* whether the language model produced a text
CarePlanIn ==
    { [patient_id |-> pid, order_id |-> oid, generated |-> g] :
      pid \in 1..2, oid \in 1..2, g \in BOOLEAN }

(***************************************************************************)
(* Store queries                                                           *)
(***************************************************************************)
NoId == 0

SetMin(S) == CHOOSE x \in S : \A y \in S : x <= y

First(S) == IF S = {} THEN NoId ELSE SetMin(S)

ProviderByNpi(provs, npi) == First({i \in DOMAIN provs : provs[i].npi = npi})

\* faulty variant of PatientByMrn: the lookup filters on the wrong column
PatientByMrn_WrongColumn(pats, mrn) ==
    First({i \in DOMAIN pats : pats[i].first_name = mrn})

PatientByMrn(pats, mrn) == First({i \in DOMAIN pats : pats[i].mrn = mrn})

\* faulty variant of OrdersIExact: medication_name= instead of
\* medication_name__iexact=
OrdersIExact_CaseSensitive(ords, pid, med) ==
    {i \in DOMAIN ords :
        ords[i].patient = pid /\ ords[i].medication_name = med}

\* faulty variant of OrdersIExact: the patient filter is missing
OrdersIExact_AnyPatient(ords, pid, med) ==
    {i \in DOMAIN ords : IExact(ords[i].medication_name, med)}

OrdersIExact(ords, pid, med) ==
    {i \in DOMAIN ords :
        ords[i].patient = pid /\ IExact(ords[i].medication_name, med)}

Db == [providers |-> providers, patients |-> patients, orders |-> orders,
       order_origin |-> order_origin]


(***************************************************************************)
(* create_patient (POST /patients), query by query.  c is the frame of one *)
(* call: its payload, its locals and the line it has reached.  Each step   *)
(* returns the store and the frame after one ORM query and the local code  *)
(* that follows it.                                                        *)
(***************************************************************************)
NoResp == [status |-> 0]

NewCall(payload) ==
    [pc |-> "L33", payload |-> payload,
     existing_provider |-> [id |-> NoId],
     provider_name_mismatch |-> FALSE,
     existing_patient |-> [id |-> NoId],
     patient_name_mismatch |-> FALSE,
     confirmation_issues |-> <<>>,
     provider |-> NoId, patient |-> NoId, existing_order |-> NoId,
     resp |-> NoResp]

IdleCall == [NewCall([mrn |-> <<>>]) EXCEPT !.pc = "idle"]

RequiresConfirmation(issues) ==
    [status |-> 422, requires_confirmation |-> TRUE, issues |-> issues]

IntegrityError == [status |-> 500, error |-> "IntegrityError"]

\* faulty variant of ProviderNameMismatch: the names are compared as typed
ProviderNameMismatch_CaseSensitive(existing_name, payload) ==
    existing_name # payload.referring_provider

ProviderNameMismatch(existing_name, payload) ==
    Lower(existing_name) # Lower(payload.referring_provider)

\* faulty variant of PatientNameMismatch: the names are compared as typed
PatientNameMismatch_CaseSensitive(existing, payload) ==
    \/ existing.first_name # payload.first_name
    \/ existing.last_name # payload.last_name

PatientNameMismatch(existing, payload) ==
    \/ Lower(existing.first_name) # Lower(payload.first_name)
    \/ Lower(existing.last_name) # Lower(payload.last_name)

\* faulty variant of ProviderIssue: gated by the patient's flag
ProviderIssue_WrongFlag(existing, payload, mismatch) ==
    IF mismatch /\ ~payload.confirm_patient_name_mismatch
    THEN "provider" :> [existing_name |-> existing.name,
                        submitted_name |-> payload.referring_provider,
                        npi |-> payload.provider_npi]
    ELSE <<>>

ProviderIssue(existing, payload, mismatch) ==
    IF mismatch /\ ~payload.confirm_provider_name_mismatch
    THEN "provider" :> [existing_name |-> existing.name,
                        submitted_name |-> payload.referring_provider,
                        npi |-> payload.provider_npi]
    ELSE <<>>

\* faulty variant of PatientIssue: reported even when it is confirmed
PatientIssue_IgnoresFlag(existing, payload, mismatch) ==
    IF mismatch
    THEN "patient" :> [existing_name |->
                           FullName(existing.first_name, existing.last_name),
                       submitted_name |->
                           FullName(payload.first_name, payload.last_name),
                       mrn |-> payload.mrn]
    ELSE <<>>

PatientIssue(existing, payload, mismatch) ==
    IF mismatch /\ ~payload.confirm_patient_name_mismatch
    THEN "patient" :> [existing_name |->
                           FullName(existing.first_name, existing.last_name),
                       submitted_name |->
                           FullName(payload.first_name, payload.last_name),
                       mrn |-> payload.mrn]
    ELSE <<>>

\* faulty variant of MergeIssues: the provider issue is returned before the
\* patient is looked at
MergeIssues_ProviderFirst(provider_issue, patient_issue) ==
    IF DOMAIN provider_issue # {} THEN provider_issue ELSE patient_issue

\* faulty variant of SaveProviderName: the name is assigned but
\* provider.save() is missing
SaveProviderName_NoSave(provs, existing_provider, payload) == provs

\* confirmation_issues is one dict: the patient entry is added next to the
\* provider entry
MergeIssues(provider_issue, patient_issue) == patient_issue @@ provider_issue

\* api.py 78-80: provider.name = payload.referring_provider; provider.save()
\* writes every field of the instance read at line 33 back to its row
SaveProviderName(provs, existing_provider, payload) ==
    [provs EXCEPT ![existing_provider.id] =
        [name |-> payload.referring_provider, npi |-> existing_provider.npi]]

\* faulty variant of IdentityGate: the call stops only when both identity
\* issues are outstanding
IdentityGate_OnlyBoth(issues) == Cardinality(DOMAIN issues) = 2

\* api.py 65: if confirmation_issues
IdentityGate(issues) == DOMAIN issues # {}

\* faulty variant of NpiTaken: the NPI column has no unique constraint
NpiTaken_NoConstraint(provs, npi) == FALSE

\* models.py 6-8: npi is unique, an insert of a stored NPI is refused
NpiTaken(provs, npi) == ProviderByNpi(provs, npi) # NoId

\* faulty variant of MrnTaken: the MRN column has no unique constraint
MrnTaken_NoConstraint(pats, mrn) == FALSE

\* models.py 19-21: mrn is unique, an insert of a stored MRN is refused
MrnTaken(pats, mrn) == PatientByMrn(pats, mrn) # NoId

\* faulty variant of ReusePatient: a confirmed name mismatch overwrites
\* the stored name, as it does for the provider
ReusePatient_Renames(pats, existing_patient, payload) ==
    [pats EXCEPT ![existing_patient.id] =
        [@ EXCEPT !.first_name = payload.first_name,
                  !.last_name = payload.last_name]]

\* api.py 88-89: patient = existing_patient, nothing is saved
ReusePatient(pats, existing_patient, payload) == pats

\* api.py 30-45: look the provider up by NPI, compare the names
create_patient_L33(db, c) ==
    LET id == ProviderByNpi(db.providers, c.payload.provider_npi)
        existing == IF id = NoId THEN [id |-> NoId]
                    ELSE [id |-> id, name |-> db.providers[id].name,
                          npi |-> db.providers[id].npi]
        mismatch == id # NoId /\ ProviderNameMismatch(existing.name, c.payload)
    IN  [db |-> db,
         c |-> [c EXCEPT !.pc = "L48",
                         !.existing_provider = existing,
                         !.provider_name_mismatch = mismatch,
                         !.confirmation_issues =
                             ProviderIssue(existing, c.payload, mismatch)]]

\* api.py 47-71: look the patient up by MRN, compare the names, and return
\* every outstanding identity issue in one 422
create_patient_L48(db, c) ==
    LET id == PatientByMrn(db.patients, c.payload.mrn)
        existing == IF id = NoId THEN [id |-> NoId]
                    ELSE [id |-> id,
                          first_name |-> db.patients[id].first_name,
                          last_name |-> db.patients[id].last_name]
        mismatch == id # NoId /\ PatientNameMismatch(existing, c.payload)
        issues == MergeIssues(c.confirmation_issues,
                              PatientIssue(existing, c.payload, mismatch))
        c1 == [c EXCEPT !.existing_patient = existing,
                        !.patient_name_mismatch = mismatch,
                        !.confirmation_issues = issues]
    IN  [db |-> db,
         c |-> IF IdentityGate(issues)
               THEN [c1 EXCEPT !.pc = "done",
                               !.resp = RequiresConfirmation(issues)]
               ELSE [c1 EXCEPT !.pc = "L76"]]

\* api.py 75-85: reuse the provider (saving the submitted name over a
\* mismatching one) or insert it; the insert fails on the unique NPI
create_patient_L76(db, c) ==
    IF c.existing_provider.id # NoId
    THEN [db |-> IF c.provider_name_mismatch
                 THEN [db EXCEPT !.providers =
                          SaveProviderName(@, c.existing_provider, c.payload)]
                 ELSE db,
          c |-> [c EXCEPT !.pc = "L88", !.provider = c.existing_provider.id]]
    ELSE IF NpiTaken(db.providers, c.payload.provider_npi)
    THEN [db |-> db, c |-> [c EXCEPT !.pc = "done", !.resp = IntegrityError]]
    ELSE [db |-> [db EXCEPT !.providers =
                     Append(@, [name |-> c.payload.referring_provider,
                                npi |-> c.payload.provider_npi])],
          c |-> [c EXCEPT !.pc = "L88",
                          !.provider = Len(db.providers) + 1]]

\* api.py 87-100: reuse the patient as stored or insert it; the insert fails
\* on the unique MRN
create_patient_L88(db, c) ==
    IF c.existing_patient.id # NoId
    THEN [db |-> [db EXCEPT !.patients =
                     ReusePatient(@, c.existing_patient, c.payload)],
          c |-> [c EXCEPT !.pc = "L103", !.patient = c.existing_patient.id]]
    ELSE IF MrnTaken(db.patients, c.payload.mrn)
    THEN [db |-> db, c |-> [c EXCEPT !.pc = "done", !.resp = IntegrityError]]
    ELSE [db |-> [db EXCEPT !.patients =
                     Append(@, [first_name |-> c.payload.first_name,
                                last_name |-> c.payload.last_name,
                                mrn |-> c.payload.mrn,
                                primary_diagnosis |->
                                    c.payload.primary_diagnosis,
                                additional_diagnoses |->
                                    c.payload.additional_diagnoses,
                                medication_history |->
                                    c.payload.medication_history,
                                records_text |-> c.payload.records_text,
                                provider |-> c.provider])],
          c |-> [c EXCEPT !.pc = "L103", !.patient = Len(db.patients) + 1]]

\* faulty variant of DuplicateOrderGate: the flag alone decides
DuplicateOrderGate_FlagOnly(existing_order, payload) ==
    ~payload.confirm_duplicate_order

\* api.py 108: if existing_order and not payload.confirm_duplicate_order
DuplicateOrderGate(existing_order, payload) ==
    existing_order # NoId /\ ~payload.confirm_duplicate_order

\* api.py 102-120: look for an order of the resolved patient with the same
\* medication; 422 unless the duplicate is confirmed
create_patient_L103(db, c) ==
    LET existing_order ==
            First(OrdersIExact(db.orders, c.patient,
                               c.payload.medication_name))
        c1 == [c EXCEPT !.existing_order = existing_order]
    IN  [db |-> db,
         c |-> IF DuplicateOrderGate(existing_order, c.payload)
               THEN [c1 EXCEPT !.pc = "done",
                       !.resp = RequiresConfirmation(
                           "order" :> [medication_name |->
                                           c.payload.medication_name,
                                       existing_order_id |-> existing_order])]
               ELSE [c1 EXCEPT !.pc = "L123"]]

SuccessMessage(c) ==
    LET warnings ==
            (IF c.provider_name_mismatch
                THEN <<"Provider name updated from existing entry.">>
                ELSE <<>>)
            \o (IF c.patient_name_mismatch
                   THEN <<"Order created for existing patient.">> ELSE <<>>)
            \o (IF c.existing_order # NoId
                   THEN <<"Duplicate order created.">> ELSE <<>>)
    IN  IF warnings # <<>>
        THEN <<"Order created successfully.">> \o warnings
        ELSE <<"Patient and order created successfully.">>

\* faulty variant of InsertOrder: update_or_create, an Order of the patient
\* with that medication is overwritten instead of joined by a new row
InsertOrder_UpdateOrCreate(ords, patient, medication_name) ==
    LET existing == First(OrdersIExact(ords, patient, medication_name))
    IN  IF existing # NoId
        THEN [ords EXCEPT ![existing].medication_name = medication_name]
        ELSE Append(ords, [patient |-> patient,
                           medication_name |-> medication_name])

\* api.py 123-126: Order.objects.create(patient=, medication_name=)
InsertOrder(ords, patient, medication_name) ==
    Append(ords, [patient |-> patient, medication_name |-> medication_name])

\* api.py 122-147: insert the order and answer 200
create_patient_L123(db, c) ==
    [db |-> [db EXCEPT
                !.orders = InsertOrder(@, c.patient,
                                       c.payload.medication_name),
                !.order_origin =
                    Append(@, [op |-> "create_patient",
                               confirm |-> c.payload.confirm_duplicate_order])],
     c |-> [c EXCEPT !.pc = "done",
                     !.resp = [status |-> 200, message |-> SuccessMessage(c),
                               patient_id |-> c.patient,
                               order_id |-> Len(db.orders) + 1]]]

create_patient_step(db, c) ==
    CASE c.pc = "L33" -> create_patient_L33(db, c)
      [] c.pc = "L48" -> create_patient_L48(db, c)
      [] c.pc = "L76" -> create_patient_L76(db, c)
      [] c.pc = "L88" -> create_patient_L88(db, c)
      [] c.pc = "L103" -> create_patient_L103(db, c)
      [] c.pc = "L123" -> create_patient_L123(db, c)

RECURSIVE create_patient_run(_, _)
create_patient_run(db, c) ==
    IF c.pc = "done" THEN [db |-> db, c |-> c]
    ELSE LET r == create_patient_step(db, c)
         IN  create_patient_run(r.db, r.c)

(***************************************************************************)
(* One client, one request at a time                                       *)
(***************************************************************************)
NoCall == [op |-> "none"]

Write(db) ==
    /\ providers' = db.providers
    /\ patients' = db.patients
    /\ orders' = db.orders
    /\ order_origin' = db.order_origin

Commit(db) ==
    /\ Len(db.orders) <= MaxOrders
    /\ Write(db)

\* POST /patients
create_patient(payload) ==
    /\ last = NoCall
    /\ calls < MaxCalls
    /\ LET r == create_patient_run(Db, NewCall(payload))
       IN  /\ Commit(r.db)
           /\ last' = [op |-> "create_patient", payload |-> payload,
                       pre |-> Db, resp |-> r.c.resp]
    /\ calls' = calls + 1
    /\ UNCHANGED <<proc, client>>

\* POST /providers: get_or_create(name=, npi=) looks the pair up, inserts
\* when it is absent, and re-raises the unique-NPI failure of the insert
create_provider_run(db, payload) ==
    LET found == First({i \in DOMAIN db.providers :
                           /\ db.providers[i].name = payload.name
                           /\ db.providers[i].npi = payload.npi})
    IN  IF found # NoId
        THEN [db |-> db,
              resp |-> [status |-> 200, id |-> found, name |-> payload.name,
                        npi |-> payload.npi]]
        ELSE IF NpiTaken(db.providers, payload.npi)
        THEN [db |-> db, resp |-> IntegrityError]
        ELSE [db |-> [db EXCEPT !.providers =
                         Append(@, [name |-> payload.name,
                                    npi |-> payload.npi])],
              resp |-> [status |-> 200, id |-> Len(db.providers) + 1,
                        name |-> payload.name, npi |-> payload.npi]]

create_provider(payload) ==
    /\ last = NoCall
    /\ calls < MaxCalls
    /\ LET r == create_provider_run(Db, payload)
       IN  /\ Commit(r.db)
           /\ last' = [op |-> "create_provider", payload |-> payload,
                       pre |-> Db, resp |-> r.resp]
    /\ calls' = calls + 1
    /\ UNCHANGED <<proc, client>>

NotFound == [status |-> 404]

\* faulty variant of PatientExists: the patient is not looked up
PatientExists_Unchecked(pats, patient_id) == TRUE

\* api.py 229: get_object_or_404(Patient, id=payload.patient_id)
PatientExists(pats, patient_id) == patient_id \in DOMAIN pats

\* POST /orders: 404 for an absent patient, otherwise always inserts and
\* only warns about a similar order
create_order_run(db, payload) ==
    IF ~PatientExists(db.patients, payload.patient_id)
    THEN [db |-> db, resp |-> NotFound]
    ELSE LET existing == OrdersIExact(db.orders, payload.patient_id,
                                      payload.medication_name)
         IN  [db |-> [db EXCEPT
                        !.orders = Append(@,
                            [patient |-> payload.patient_id,
                             medication_name |-> payload.medication_name]),
                        !.order_origin = Append(@,
                            [op |-> "create_order", confirm |-> FALSE])],
              resp |-> [status |-> 200, id |-> Len(db.orders) + 1,
                        patient_id |-> payload.patient_id,
                        medication_name |-> payload.medication_name,
                        warning |-> existing # {}]]

create_order(payload) ==
    /\ last = NoCall
    /\ calls < MaxCalls
    /\ LET r == create_order_run(Db, payload)
       IN  /\ Commit(r.db)
           /\ last' = [op |-> "create_order", payload |-> payload,
                       pre |-> Db, resp |-> r.resp]
    /\ calls' = calls + 1
    /\ UNCHANGED <<proc, client>>

\* faulty variant of OrderOfPatient: the order is looked up by id alone
OrderOfPatient_AnyPatient(ords, order_id, patient_id) ==
    order_id \in DOMAIN ords

\* api.py 175: get_object_or_404(Order, id=order_id, patient=patient)
OrderOfPatient(ords, order_id, patient_id) ==
    order_id \in DOMAIN ords /\ ords[order_id].patient = patient_id

\* faulty variant of CarePlanWrites: the generated text is kept on the
\* patient
CarePlanWrites_StoresText(db, payload) ==
    [db EXCEPT !.patients[payload.patient_id].records_text =
                   <<"c", "a", "r", "e">>]

\* care_plan_service.py 8-119: the patient and the order are read into the
\* prompt and the header; nothing is saved
CarePlanWrites(db, payload) == db

\* the care-plan download: 404 unless the patient exists and the order is
\* one of that patient's, then the text, or 500 when generation fails
get_care_plan_run(db, payload) ==
    IF payload.patient_id \notin DOMAIN db.patients
    THEN [db |-> db, resp |-> NotFound]
    ELSE IF ~OrderOfPatient(db.orders, payload.order_id, payload.patient_id)
    THEN [db |-> db, resp |-> NotFound]
    ELSE [db |-> CarePlanWrites(db, payload),
          resp |-> IF payload.generated
                   THEN [status |-> 200,
                         content_type |-> "text/plain; charset=utf-8",
                         filename |->
                             <<db.patients[payload.patient_id].first_name,
                               db.patients[payload.patient_id].last_name,
                               db.patients[payload.patient_id].mrn>>]
                   ELSE [status |-> 500,
                         error |-> "Failed to generate care plan"]]

\* the call leaves the tables as they are, so any number of them fits
\* between two counted calls
get_care_plan(payload) ==
    /\ last = NoCall
    /\ LET r == get_care_plan_run(Db, payload)
       IN  /\ Commit(r.db)
           /\ last' = [op |-> "get_care_plan", payload |-> payload,
                       pre |-> Db, resp |-> r.resp]
    /\ UNCHANGED <<calls, proc, client>>

\* the client reads the response; the test client sends its next request
\* only after that
ReceiveResponse ==
    /\ last # NoCall
    /\ last' = NoCall
    /\ UNCHANGED <<providers, patients, orders, order_origin, calls, proc,
                   client>>

Procs == {1, 2}

NoClient == [mode |-> "none"]

Init ==
    /\ providers = <<>>
    /\ patients = <<>>
    /\ orders = <<>>
    /\ order_origin = <<>>
    /\ last = NoCall
    /\ calls = 0
    /\ proc = [p \in Procs |-> IdleCall]
    /\ client = NoClient

Next ==
    \/ \E payload \in PatientIn : create_patient(payload)
    \/ \E payload \in ProviderIn : create_provider(payload)
    \/ \E payload \in OrderIn : create_order(payload)
    \/ \E payload \in CarePlanIn : get_care_plan(payload)
    \/ ReceiveResponse

Spec == Init /\ [][Next]_vars

(***************************************************************************)
(* Two intake requests in flight.  No transaction spans the handler, so    *)
(* the queries of the two calls interleave one by one; the unique          *)
(* constraints on Provider.npi and Patient.mrn are the only serialization. *)
(***************************************************************************)
ConcPatientIn ==
    { Payload(<<<<"A", "l">>, <<"D", "o">>>>, GoodMrn, rp, n, med,
              FALSE, cprov, FALSE) :
        rp \in {<<"D", "r", "A">>, <<"D", "r", "B">>}, n \in Npis,
        med \in {<<"I", "V">>, <<"A", "s">>}, cprov \in BOOLEAN }

\* a worker picks up POST /patients
ConcStart(p, payload) ==
    /\ proc[p].pc \in {"idle", "done"}
    /\ calls < MaxConcCalls
    /\ proc' = [proc EXCEPT ![p] = NewCall(payload)]
    /\ calls' = calls + 1
    /\ UNCHANGED <<providers, patients, orders, order_origin, last, client>>

\* the worker runs its next query
ConcStep(p) ==
    /\ proc[p].pc \notin {"idle", "done"}
    /\ LET r == create_patient_step(Db, proc[p])
       IN  /\ Commit(r.db)
           /\ proc' = [proc EXCEPT ![p] = r.c]
    /\ UNCHANGED <<last, calls, client>>

\* POST /providers served while intake calls are in flight.  get_or_create
\* reads, then inserts; whether the row goes in is decided by the unique
\* constraint at the insert, so its effect on the table is that of one step
ConcCreateProvider(payload) ==
    /\ calls < MaxConcCalls
    /\ Commit(create_provider_run(Db, payload).db)
    /\ calls' = calls + 1
    /\ UNCHANGED <<last, proc, client>>

NextConc ==
    \/ \E p \in Procs, payload \in ConcPatientIn : ConcStart(p, payload)
    \/ \E p \in Procs : ConcStep(p)
    \/ \E payload \in ProviderIn : ConcCreateProvider(payload)

SpecConc == Init /\ [][NextConc]_vars

\* the store after one intake call on the empty store: the Provider DrA,
\* the Patient Al Do and the Patient's Order of IV
SeedPayload ==
    Payload(<<<<"A", "l">>, <<"D", "o">>>>, GoodMrn, <<"D", "r", "A">>,
            GoodNpi, <<"I", "V">>, FALSE, FALSE, FALSE)

SeedDb ==
    create_patient_run([providers |-> <<>>, patients |-> <<>>,
                        orders |-> <<>>, order_origin |-> <<>>],
                       NewCall(SeedPayload)).db

\* two intake requests in flight for a patient that is already stored
InitSeeded ==
    /\ providers = SeedDb.providers
    /\ patients = SeedDb.patients
    /\ orders = SeedDb.orders
    /\ order_origin = SeedDb.order_origin
    /\ last = NoCall
    /\ calls = 0
    /\ proc = [p \in Procs |-> IdleCall]
    /\ client = NoClient

SpecConcSeeded == InitSeeded /\ [][NextConc]_vars

(***************************************************************************)
(* One client that repeats an intake request.  After at most               *)
(* MaxPrefixCalls arbitrary calls it picks a request and sends it up to    *)
(* MaxSubmits times: unchanged and with every flag set ("resubmit"), or    *)
(* starting with no flag and setting, after each 422, the flag of every    *)
(* issue the 422 lists ("confirm").  client remembers the request, the     *)
(* number of submissions and of 422 answers, the last answer, the table    *)
(* sizes and patient_id after the first submission, and the number of      *)
(* Orders before it.                                                       *)
(***************************************************************************)
AllConfirmed(payload) ==
    /\ payload.confirm_provider_name_mismatch
    /\ payload.confirm_patient_name_mismatch
    /\ payload.confirm_duplicate_order

NoneConfirmed(payload) ==
    /\ ~payload.confirm_provider_name_mismatch
    /\ ~payload.confirm_patient_name_mismatch
    /\ ~payload.confirm_duplicate_order

\* the request with the flag of every listed issue set
Confirm(payload, issues) ==
    [payload EXCEPT
        !.confirm_provider_name_mismatch = @ \/ "provider" \in issues,
        !.confirm_patient_name_mismatch = @ \/ "patient" \in issues,
        !.confirm_duplicate_order = @ \/ "order" \in issues]

\* the handler run on the client's request
ClientRun(payload) == create_patient_run(Db, NewCall(payload))

\* POST /patients by this client
ClientSend(payload) ==
    /\ last = NoCall
    /\ Write(ClientRun(payload).db)
    /\ last' = [op |-> "create_patient", payload |-> payload,
                pre |-> Db, resp |-> ClientRun(payload).c.resp]
    /\ UNCHANGED <<calls, proc>>

ClientFirst(mode, payload) ==
    /\ client = NoClient
    /\ ClientSend(payload)
    /\ LET r == ClientRun(payload)
       IN  client' = [mode |-> mode, payload |-> payload, n |-> 1,
                      rejected |-> IF r.c.resp.status = 422 THEN 1 ELSE 0,
                      resp |-> r.c.resp,
                      providers1 |-> Len(r.db.providers),
                      patients1 |-> Len(r.db.patients),
                      patient_id1 |-> r.c.patient,
                      orders0 |-> Len(orders)]

ClientNext(mode, payload) ==
    /\ client.mode = mode
    /\ client.n < MaxSubmits
    /\ ClientSend(payload)
    /\ LET r == ClientRun(payload)
       IN  client' = [client EXCEPT
                        !.payload = payload,
                        !.n = @ + 1,
                        !.rejected = IF r.c.resp.status = 422
                                     THEN @ + 1 ELSE @,
                        !.resp = r.c.resp]

\* the same request, every flag set
ClientResubmitFirst(payload) == ClientFirst("resubmit", payload)

ClientResubmit == ClientNext("resubmit", client.payload)

\* the request without flags, then with the flags each 422 asks for
ClientConfirmFirst(payload) == ClientFirst("confirm", payload)

ClientConfirm ==
    /\ client.mode = "confirm"
    /\ client.resp.status = 422
    /\ ClientNext("confirm",
                  Confirm(client.payload, DOMAIN client.resp.issues))

\* what happened before the client took up its request
PrefixCall ==
    /\ client = NoClient
    /\ calls < MaxPrefixCalls
    /\ \/ \E payload \in PatientIn : create_patient(payload)
       \/ \E payload \in ProviderIn : create_provider(payload)
       \/ \E payload \in OrderIn : create_order(payload)

NextClient ==
    \/ PrefixCall
    \/ ReceiveResponse
    \/ \E payload \in {q \in PatientIn : AllConfirmed(q)} :
          ClientResubmitFirst(payload)
    \/ ClientResubmit
    \/ \E payload \in {q \in PatientIn : NoneConfirmed(q)} :
          ClientConfirmFirst(payload)
    \/ ClientConfirm

SpecClient == Init /\ [][NextClient]_vars

(***************************************************************************)
(* Vocabulary of the properties.  last is the call the sequential client   *)
(* has just completed: its payload, the store before it and its response.  *)
(***************************************************************************)
UpperChar(ch) ==
    CASE ch = "a" -> "A"
      [] ch = "b" -> "B"
      [] ch = "d" -> "D"
      [] ch = "i" -> "I"
      [] ch = "l" -> "L"
      [] ch = "o" -> "O"
      [] ch = "r" -> "R"
      [] ch = "s" -> "S"
      [] ch = "v" -> "V"
      [] OTHER -> ch

SameIgnoringCase(a, b) ==
    /\ Len(a) = Len(b)
    /\ \A i \in 1..Len(a) : UpperChar(a[i]) = UpperChar(b[i])

IntakeDone == last.op = "create_patient"

StoreUnchanged ==
    /\ providers = last.pre.providers
    /\ patients = last.pre.patients
    /\ orders = last.pre.orders

\* the rows that existed before the call and carry the submitted keys
PriorProviders ==
    {i \in DOMAIN last.pre.providers :
        last.pre.providers[i].npi = last.payload.provider_npi}

PriorPatients ==
    {i \in DOMAIN last.pre.patients :
        last.pre.patients[i].mrn = last.payload.mrn}

ProviderConflict ==
    \E i \in PriorProviders :
        ~SameIgnoringCase(last.pre.providers[i].name,
                          last.payload.referring_provider)

PatientConflict ==
    \E i \in PriorPatients :
        \/ ~SameIgnoringCase(last.pre.patients[i].first_name,
                             last.payload.first_name)
        \/ ~SameIgnoringCase(last.pre.patients[i].last_name,
                             last.payload.last_name)

DuplicateOrder ==
    \E i \in PriorPatients, o \in DOMAIN last.pre.orders :
        /\ last.pre.orders[o].patient = i
        /\ SameIgnoringCase(last.pre.orders[o].medication_name,
                            last.payload.medication_name)

UnconfirmedIdentityConflict ==
    \/ ProviderConflict /\ ~last.payload.confirm_provider_name_mismatch
    \/ PatientConflict /\ ~last.payload.confirm_patient_name_mismatch

Issues == IF last.resp.status = 422 THEN DOMAIN last.resp.issues ELSE {}

\* every identifier stored or submitted so far has the documented shape
WellFormedIds ==
    /\ \A i \in DOMAIN providers : NpiValid(providers[i].npi)
    /\ \A i \in DOMAIN patients : MrnValid(patients[i].mrn)
    /\ last # NoCall /\ last.op = "create_patient"
         => MrnValid(last.payload.mrn) /\ NpiValid(last.payload.provider_npi)

(***************************************************************************)
(* C1..C10                                                                 *)
(***************************************************************************)

\* C1: an intake call that answers 422, whichever issue it reports, leaves
\* the Provider, Patient and Order tables (provider names included) exactly
\* as they were before the call.  Stated for well-formed identifiers, so
\* that a violation owes nothing to the missing validation of C6.
C1_ConfirmationWritesNothing ==
    (IntakeDone /\ WellFormedIds /\ last.resp.status = 422) => StoreUnchanged

\* C2: an intake call that meets a provider-name conflict (same NPI, name
\* different apart from letter case) without confirm_provider_name_mismatch
\* answers 422 with requires_confirmation and issues.provider = (existing
\* name, submitted name, npi), and writes nothing, whatever the rest of the
\* request is.
C2_ProviderMismatchNeedsConfirmation ==
    (IntakeDone /\ ProviderConflict
        /\ ~last.payload.confirm_provider_name_mismatch)
    => /\ last.resp.status = 422
       /\ last.resp.requires_confirmation = TRUE
       /\ "provider" \in DOMAIN last.resp.issues
       /\ \A i \in PriorProviders :
            last.resp.issues["provider"] =
                [existing_name |-> last.pre.providers[i].name,
                 submitted_name |-> last.payload.referring_provider,
                 npi |-> last.payload.provider_npi]
       /\ StoreUnchanged

C2_Witness ==
    /\ IntakeDone
    /\ ProviderConflict
    /\ ~last.payload.confirm_provider_name_mismatch
    /\ last.payload.confirm_patient_name_mismatch
    /\ last.payload.confirm_duplicate_order
    /\ PriorPatients # {}
    /\ last.resp.status = 422

\* C3: with a provider-name conflict and a patient-name conflict and neither
\* flag set, the one 422 response carries both issues.provider and
\* issues.patient.
C3_BothIdentityIssuesTogether ==
    (IntakeDone /\ ProviderConflict /\ PatientConflict
        /\ ~last.payload.confirm_provider_name_mismatch
        /\ ~last.payload.confirm_patient_name_mismatch)
    => /\ last.resp.status = 422
       /\ {"provider", "patient"} \subseteq DOMAIN last.resp.issues

C3_Witness ==
    /\ IntakeDone
    /\ ProviderConflict
    /\ PatientConflict
    /\ ~last.payload.confirm_provider_name_mismatch
    /\ ~last.payload.confirm_patient_name_mismatch
    /\ last.resp.status = 422

\* C4: issues.provider is present exactly when the provider conflict exists
\* and its flag is false, issues.patient exactly when the patient conflict
\* exists and its flag is false; with both conflicts and exactly one flag
\* set the call answers 422 and writes nothing.
C4_PartialConfirmation ==
    IntakeDone =>
       /\ "provider" \in Issues <=>
            (ProviderConflict /\ ~last.payload.confirm_provider_name_mismatch)
       /\ "patient" \in Issues <=>
            (PatientConflict /\ ~last.payload.confirm_patient_name_mismatch)
       /\ (ProviderConflict /\ PatientConflict
             /\ last.payload.confirm_provider_name_mismatch
                  # last.payload.confirm_patient_name_mismatch)
          => (last.resp.status = 422 /\ StoreUnchanged)

C4_Witness ==
    /\ IntakeDone
    /\ ProviderConflict
    /\ PatientConflict
    /\ last.payload.confirm_provider_name_mismatch
    /\ ~last.payload.confirm_patient_name_mismatch
    /\ Issues = {"patient"}
    /\ StoreUnchanged

\* C5 as written: with both identity conflicts and both identity flags set
\* the call answers 200, the existing Provider carries the submitted name
\* and the existing Patient keeps its names.
C5_Original ==
    (IntakeDone /\ WellFormedIds /\ ProviderConflict /\ PatientConflict
        /\ last.payload.confirm_provider_name_mismatch
        /\ last.payload.confirm_patient_name_mismatch)
    => /\ last.resp.status = 200
       /\ \A i \in PriorProviders :
            providers[i].name = last.payload.referring_provider
       /\ \A i \in PriorPatients :
            /\ patients[i].first_name = last.pre.patients[i].first_name
            /\ patients[i].last_name = last.pre.patients[i].last_name

\* C5 amended: with both identity conflicts and both identity flags set,
\* and no duplicate order left unconfirmed, the call answers 200, the
\* existing Provider carries the submitted name (its NPI unchanged) and the
\* existing Patient keeps its names; with a duplicate order left
\* unconfirmed it answers the duplicate-order 422 instead.
C5_ConfirmedBothSucceeds ==
    (IntakeDone /\ ProviderConflict /\ PatientConflict
        /\ last.payload.confirm_provider_name_mismatch
        /\ last.payload.confirm_patient_name_mismatch)
    => IF DuplicateOrder /\ ~last.payload.confirm_duplicate_order
       THEN Issues = {"order"}
       ELSE /\ last.resp.status = 200
            /\ \A i \in PriorProviders :
                 /\ providers[i].name = last.payload.referring_provider
                 /\ providers[i].npi = last.pre.providers[i].npi
            /\ \A i \in PriorPatients :
                 /\ patients[i].first_name = last.pre.patients[i].first_name
                 /\ patients[i].last_name = last.pre.patients[i].last_name

C5_Witness ==
    /\ IntakeDone
    /\ ProviderConflict
    /\ PatientConflict
    /\ last.payload.confirm_provider_name_mismatch
    /\ last.payload.confirm_patient_name_mismatch
    /\ last.resp.status = 200
    /\ \E i \in PriorProviders :
         /\ providers[i].name # last.pre.providers[i].name
         /\ providers[i].name = last.payload.referring_provider

\* C6: an intake request whose MRN is not 6 digits or whose NPI is not 10
\* digits is answered 400 and writes nothing.
C6_MalformedIdsRejected ==
    (IntakeDone /\ (~MrnValid(last.payload.mrn)
                      \/ ~NpiValid(last.payload.provider_npi)))
    => (last.resp.status = 400 /\ StoreUnchanged)

SameNamePrior ==
    \E i \in PriorPatients :
        /\ last.pre.patients[i].first_name = last.payload.first_name
        /\ last.pre.patients[i].last_name = last.payload.last_name

CreatedOnePatientOneOrder ==
    /\ Len(patients) = Len(last.pre.patients) + 1
    /\ SubSeq(patients, 1, Len(last.pre.patients)) = last.pre.patients
    /\ patients[Len(patients)].mrn = last.payload.mrn
    /\ Len(orders) = Len(last.pre.orders) + 1
    /\ SubSeq(orders, 1, Len(last.pre.orders)) = last.pre.orders
    /\ orders[Len(orders)].patient = Len(patients)

ReusedPatientNewOrder ==
    /\ patients = last.pre.patients
    /\ last.resp.status = 200
    /\ last.resp.patient_id \in PriorPatients
    /\ Len(orders) = Len(last.pre.orders) + 1
    /\ SubSeq(orders, 1, Len(last.pre.orders)) = last.pre.orders
    /\ orders[Len(orders)].patient = last.resp.patient_id

\* C7 as written: any submission with a valid MRN not yet stored creates
\* exactly one Patient and one Order; any submission with a stored MRN and
\* the stored name creates no Patient, returns the stored patient's id and
\* creates one more Order for it.
C7_Original ==
    (IntakeDone /\ WellFormedIds)
    => /\ PriorPatients = {} => CreatedOnePatientOneOrder
       /\ SameNamePrior => ReusedPatientNewOrder

\* C7 amended: the same, for submissions that leave no provider-name conflict
\* unconfirmed and, on the reuse path, no duplicate order unconfirmed.
C7_CreateOnceThenReuse ==
    (IntakeDone /\ MrnValid(last.payload.mrn)
        /\ (ProviderConflict => last.payload.confirm_provider_name_mismatch))
    => /\ PriorPatients = {} => CreatedOnePatientOneOrder
       /\ (SameNamePrior
             /\ (DuplicateOrder => last.payload.confirm_duplicate_order))
          => ReusedPatientNewOrder

C7_Witness ==
    /\ IntakeDone
    /\ MrnValid(last.payload.mrn)
    /\ SameNamePrior
    /\ ~DuplicateOrder
    /\ last.resp.status = 200
    /\ Len(patients) = 1
    /\ Len(orders) = 2
    /\ last.pre.order_origin[1].op = "create_patient"

\* C8: for a stored patient that already has an order of the submitted
\* medication (letter case apart) and no identity conflict left unconfirmed:
\* without confirm_duplicate_order the call answers 422 with issues.order
\* and adds no Order; with it the call answers 200 and adds exactly one
\* Order, for that patient and medication.
C8_DuplicateOrderGate ==
    (IntakeDone /\ DuplicateOrder /\ ~UnconfirmedIdentityConflict)
    => IF ~last.payload.confirm_duplicate_order
       THEN /\ last.resp.status = 422
            /\ DOMAIN last.resp.issues = {"order"}
            /\ last.resp.issues["order"].medication_name =
                   last.payload.medication_name
            /\ orders = last.pre.orders
       ELSE /\ last.resp.status = 200
            /\ Len(orders) = Len(last.pre.orders) + 1
            /\ SubSeq(orders, 1, Len(last.pre.orders)) = last.pre.orders
            /\ orders[Len(orders)].patient \in PriorPatients
            /\ orders[Len(orders)].medication_name =
                   last.payload.medication_name

C8_Witness ==
    /\ IntakeDone
    /\ DuplicateOrder
    /\ last.payload.confirm_duplicate_order
    /\ last.resp.status = 200
    /\ Len(last.pre.orders) = 1
    /\ Len(orders) = 2
    /\ orders[1].patient = orders[2].patient
    /\ orders[1].medication_name # orders[2].medication_name

\* C9: whenever a patient has two orders of the same medication (letter case
\* apart), the later one was created by an intake call that carried
\* confirm_duplicate_order = true.
C9_DuplicatesOnlyConfirmed ==
    \A i, j \in DOMAIN orders :
        (i < j /\ orders[i].patient = orders[j].patient
           /\ MrnValid(patients[orders[i].patient].mrn)
           /\ SameIgnoringCase(orders[i].medication_name,
                               orders[j].medication_name))
        => (order_origin[j].op = "create_patient" /\ order_origin[j].confirm)

\* C10: when two intake calls for the same well-formed MRN have both read it
\* as absent and both have gone on to insert the Patient (each holds its
\* provider, neither stopped for a confirmation), one answers 200 with the
\* created Patient, the other answers 400 DuplicateKey, and one Patient has
\* the MRN.
C10_RaceLoserGetsDuplicateKey ==
    (/\ \A p \in Procs : /\ proc[p].pc = "done"
                         /\ proc[p].existing_patient.id = NoId
                         /\ proc[p].provider # NoId
                         /\ NpiValid(proc[p].payload.provider_npi)
     /\ MrnValid(proc[1].payload.mrn)
     /\ proc[1].payload.mrn = proc[2].payload.mrn)
    => /\ \E w \in Procs :
            /\ proc[w].resp.status = 200
            /\ patients[proc[w].resp.patient_id].mrn = proc[w].payload.mrn
            /\ \A l \in Procs \ {w} :
                 /\ proc[l].resp.status = 400
                 /\ proc[l].resp.error = "DuplicateKey"
       /\ Cardinality({i \in DOMAIN patients :
                          patients[i].mrn = proc[1].payload.mrn}) = 1

(***************************************************************************)
(* C11..C20                                                                *)
(***************************************************************************)

\* the call inserted the Provider row it holds, and the row is in the table
ProviderInsertLeftBehind(c) ==
    /\ c.existing_provider.id = NoId
    /\ c.provider # NoId
    /\ c.provider \in DOMAIN providers
    /\ providers[c.provider].npi = c.payload.provider_npi

\* the call saved its name over the Provider it found, and the row still
\* carries that name instead of the one the call read
ProviderRenameLeftBehind(c) ==
    /\ c.existing_provider.id # NoId
    /\ c.provider = c.existing_provider.id
    /\ c.provider_name_mismatch
    /\ providers[c.provider].name = c.payload.referring_provider
    /\ providers[c.provider].name # c.existing_provider.name

\* C11: an intake call is all-or-nothing: when it fails after its first
\* write (its Patient insert loses the unique-MRN race), the Provider it
\* inserted or the name it saved is rolled back, so a call that ended in an
\* error leaves no Provider row and no rename behind.  Stated for
\* well-formed identifiers, stored and submitted.
C11_FailedCallRolledBack ==
    \A p \in Procs :
        (/\ proc[p].pc = "done"
         /\ proc[p].resp.status = 500
         /\ \A i \in DOMAIN providers : NpiValid(providers[i].npi)
         /\ NpiValid(proc[p].payload.provider_npi)
         /\ MrnValid(proc[p].payload.mrn))
        => /\ ~ProviderInsertLeftBehind(proc[p])
           /\ ~ProviderRenameLeftBehind(proc[p])

\* one step leaves every stored Patient's name alone, and a Patient row that
\* appears carries the names of the intake call that has just run
PatientNamesKept ==
    /\ Len(patients') >= Len(patients)
    /\ \A i \in DOMAIN patients :
         /\ patients'[i].first_name = patients[i].first_name
         /\ patients'[i].last_name = patients[i].last_name
         /\ patients'[i].mrn = patients[i].mrn
    /\ \A i \in DOMAIN patients' \ DOMAIN patients :
         /\ last'.op = "create_patient"
         /\ patients'[i].first_name = last'.payload.first_name
         /\ patients'[i].last_name = last'.payload.last_name
         /\ patients'[i].mrn = last'.payload.mrn

\* C12: a stored Patient's name never changes: through any sequence of
\* calls the first_name and last_name held for an MRN are those of the
\* intake call that created the Patient, confirmed name mismatches included.
C12_PatientNameNeverChanges == [][PatientNamesKept]_vars

\* a confirmed patient-name mismatch went through and the stored name is
\* still the old one, not the submitted one
C12_Witness ==
    /\ IntakeDone
    /\ last.resp.status = 200
    /\ last.payload.confirm_patient_name_mismatch
    /\ PatientConflict
    /\ \E i \in PriorPatients :
         /\ patients[i].first_name = last.pre.patients[i].first_name
         /\ patients[i].last_name = last.pre.patients[i].last_name
         /\ <<patients[i].first_name, patients[i].last_name>> #
              <<last.payload.first_name, last.payload.last_name>>
         /\ last.resp.patient_id = i

\* C13: in every reachable state, whatever the interleaving of intake calls
\* and POST /providers calls, no two Providers share an NPI and no two
\* Patients share an MRN.
C13_UniqueKeys ==
    /\ \A i, j \in DOMAIN providers :
         providers[i].npi = providers[j].npi => i = j
    /\ \A i, j \in DOMAIN patients :
         patients[i].mrn = patients[j].mrn => i = j

\* two intake calls raced for one MRN: both read it as absent, one inserted
\* the Patient and the other's insert was refused
C13_Witness ==
    \E w, l \in Procs :
        /\ proc[w].pc = "done" /\ proc[w].resp.status = 200
        /\ proc[l].pc = "done" /\ proc[l].resp = IntegrityError
        /\ proc[w].existing_patient.id = NoId
        /\ proc[l].existing_patient.id = NoId
        /\ proc[l].provider # NoId
        /\ proc[w].payload.mrn = proc[l].payload.mrn
        /\ Cardinality({i \in DOMAIN patients :
                           patients[i].mrn = proc[l].payload.mrn}) = 1

\* one step keeps every Provider row and its NPI; a name changes only to the
\* referring_provider of the intake call that has just run, which carried
\* confirm_provider_name_mismatch for that NPI and a name that differs from
\* the stored one by more than letter case
ProviderOnlyRenamedOnConfirmation ==
    \A i \in DOMAIN providers :
        /\ i \in DOMAIN providers'
        /\ providers'[i].npi = providers[i].npi
        /\ providers'[i].name # providers[i].name
             => /\ last'.op = "create_patient"
                /\ last'.payload.confirm_provider_name_mismatch
                /\ last'.payload.provider_npi = providers[i].npi
                /\ ~SameIgnoringCase(providers[i].name,
                                     last'.payload.referring_provider)
                /\ providers'[i].name = last'.payload.referring_provider

\* C14: a Provider's NPI never changes after the row is created; only its
\* name can change, and only through an intake call that carries
\* confirm_provider_name_mismatch = true and a differing name.
C14_NpiFixedNameOnlyByConfirmation ==
    [][ProviderOnlyRenamedOnConfirmation]_vars

\* a confirmed rename happened: the row kept its NPI and took the new name
C14_Witness ==
    /\ IntakeDone
    /\ last.payload.confirm_provider_name_mismatch
    /\ \E i \in DOMAIN last.pre.providers :
         /\ providers[i].npi = last.pre.providers[i].npi
         /\ providers[i].npi = last.payload.provider_npi
         /\ providers[i].name # last.pre.providers[i].name
         /\ NpiValid(providers[i].npi)

\* C15: POST /providers with an NPI that is already stored under another
\* name answers 200 and creates no second Provider: one Provider has that
\* NPI afterwards.
C15_SameNpiOtherNameSucceeds ==
    (/\ last.op = "create_provider"
     /\ NpiValid(last.payload.npi)
     /\ \E i \in DOMAIN last.pre.providers :
          /\ last.pre.providers[i].npi = last.payload.npi
          /\ last.pre.providers[i].name # last.payload.name)
    => /\ last.resp.status = 200
       /\ Cardinality({i \in DOMAIN providers :
                          providers[i].npi = last.payload.npi}) = 1

\* C16: a 422 never mixes the stages: its issues are identity issues
\* (provider, patient) only, or the order issue only, and the order issue is
\* returned only by a call in which every identity conflict it met has its
\* confirmation flag set, or which met none.
C16_StagesNeverMixed ==
    (IntakeDone /\ last.resp.status = 422)
    => /\ Issues # {}
       /\ Issues \subseteq {"provider", "patient"} \/ Issues = {"order"}
       /\ "order" \in Issues => ~UnconfirmedIdentityConflict

\* both identity conflicts were met and confirmed, and the call stopped at
\* the duplicate order alone
C16_Witness ==
    /\ IntakeDone
    /\ WellFormedIds
    /\ ProviderConflict
    /\ PatientConflict
    /\ DuplicateOrder
    /\ ~last.payload.confirm_duplicate_order
    /\ last.resp.status = 422
    /\ Issues = {"order"}

Says(sentence) ==
    \E k \in DOMAIN last.resp.message : last.resp.message[k] = sentence

\* C17: the message of a successful intake call lists exactly what was
\* resolved on the way: it reports the provider-name update exactly when a
\* stored Provider's name was overwritten, the reuse of an existing patient
\* exactly when the Patient was found by MRN instead of created, and the
\* duplicate order exactly when the patient already had that medication
\* (letter case apart); the plain "Patient and order created successfully."
\* is returned only when a new Patient was created.
C17_MessageListsResolutions ==
    (IntakeDone /\ WellFormedIds /\ last.resp.status = 200)
    => /\ Says("Provider name updated from existing entry.")
            <=> \E i \in PriorProviders :
                    providers[i].name # last.pre.providers[i].name
       /\ Says("Order created for existing patient.")
            <=> PriorPatients # {}
       /\ Says("Duplicate order created.") <=> DuplicateOrder
       /\ Says("Patient and order created successfully.")
            => PriorPatients = {}

CarePlanDone == last.op = "get_care_plan"

\* C18: a request that names an absent id is answered 404 and writes
\* nothing: POST /orders for a patient_id that does not exist creates no
\* Order, and the care-plan endpoint answers 404 when the patient id does
\* not exist, when the order id does not exist, and when the order belongs
\* to another patient.
C18_AbsentIdIs404 ==
    /\ (last.op = "create_order"
          /\ last.payload.patient_id \notin DOMAIN last.pre.patients)
       => last.resp.status = 404 /\ StoreUnchanged
    /\ (CarePlanDone
          /\ \/ last.payload.patient_id \notin DOMAIN last.pre.patients
             \/ last.payload.order_id \notin DOMAIN last.pre.orders
             \/ last.pre.orders[last.payload.order_id].patient #
                  last.payload.patient_id)
       => last.resp.status = 404 /\ StoreUnchanged

\* the care plan of an existing order was asked for under another existing
\* patient
C18_Witness ==
    /\ CarePlanDone
    /\ \A i \in DOMAIN patients : MrnValid(patients[i].mrn)
    /\ last.payload.patient_id \in DOMAIN patients
    /\ last.payload.order_id \in DOMAIN orders
    /\ orders[last.payload.order_id].patient # last.payload.patient_id
    /\ last.payload.generated
    /\ last.resp.status = 404

\* C19: every Order references a stored Patient and every Patient a stored
\* Provider; no call, failing and 422 answers included, leaves an Order
\* without its Patient.
C19_ReferencesResolve ==
    /\ \A o \in DOMAIN orders : orders[o].patient \in DOMAIN patients
    /\ \A i \in DOMAIN patients : patients[i].provider \in DOMAIN providers

\* POST /orders for an absent patient was refused while the store holds an
\* order, its patient and the patient's provider
C19_Witness ==
    /\ last.op = "create_order"
    /\ last.resp.status = 404
    /\ orders # <<>>
    /\ \A o \in DOMAIN orders :
         providers[patients[orders[o].patient].provider].npi = GoodNpi

\* C20: generating a care plan does not touch the reconciliation state: a
\* care-plan call, whether it answers 200, 404 or 500, leaves every
\* Provider, Patient and Order row as it was, so the intake calls around it
\* meet the store, and give the answers, they would have without it.
C20_CarePlanWritesNothing ==
    CarePlanDone
    => /\ last.resp.status \in {200, 404, 500}
       /\ StoreUnchanged
       /\ order_origin = last.pre.order_origin

\* after two intake calls a care plan was asked for an order of the named
\* patient and its generation failed
C20_Witness ==
    /\ CarePlanDone
    /\ last.resp.status = 500
    /\ calls = MaxCalls
    /\ Len(orders) >= 2
    /\ orders[last.payload.order_id].patient = last.payload.patient_id

(***************************************************************************)
(* C21..C29                                                                *)
(***************************************************************************)

\* C21: resubmission is idempotent on Provider and Patient creation and not
\* on Order creation: the same intake request sent k times in a row with
\* all three confirm flags set is answered 200 every time with the same
\* patient_id, leaves the numbers of Providers and Patients what they were
\* after the first submission, and creates k Orders.
C21_ResubmissionIdempotent ==
    client.mode = "resubmit"
    => /\ client.resp.status = 200
       /\ client.resp.patient_id = client.patient_id1
       /\ patients[client.patient_id1].mrn = client.payload.mrn
       /\ Len(providers) = client.providers1
       /\ Len(patients) = client.patients1
       /\ Len(orders) = client.orders0 + client.n

\* the third submission of a well-formed request, on a store that held an
\* Order before the first
C21_Witness ==
    /\ client.mode = "resubmit"
    /\ client.n = 3
    /\ client.orders0 = 1
    /\ Len(orders) = 4
    /\ MrnValid(client.payload.mrn)
    /\ NpiValid(client.payload.provider_npi)
    /\ last.op = "create_patient"

\* C22: two intake calls in flight for the same stored Patient and the same
\* medication, both without confirm_duplicate_order, while the Patient has
\* no Order of that medication: in no interleaving are both answered 200,
\* and at most one unconfirmed Order of that medication is created for the
\* Patient.
C22_NoStaleDuplicateCheck ==
    \A p, q \in Procs :
        (/\ p # q
         /\ proc[p].pc = "done" /\ proc[q].pc = "done"
         /\ proc[p].existing_patient.id # NoId
         /\ proc[p].existing_patient.id = proc[q].existing_patient.id
         /\ IExact(proc[p].payload.medication_name,
                   proc[q].payload.medication_name)
         /\ ~proc[p].payload.confirm_duplicate_order
         /\ ~proc[q].payload.confirm_duplicate_order
         /\ OrdersIExact(SeedDb.orders, proc[p].existing_patient.id,
                         proc[p].payload.medication_name) = {})
        => /\ ~(proc[p].resp.status = 200 /\ proc[q].resp.status = 200)
           /\ Cardinality(
                {o \in OrdersIExact(orders, proc[p].existing_patient.id,
                                    proc[p].payload.medication_name) :
                    ~order_origin[o].confirm}) <= 1

\* the submitted names differ from the stored ones in letter case and in
\* nothing else
CaseOnlyDifference ==
    /\ ~ProviderConflict
    /\ ~PatientConflict
    /\ \/ \E i \in PriorProviders :
            last.pre.providers[i].name # last.payload.referring_provider
       \/ \E i \in PriorPatients :
            <<last.pre.patients[i].first_name,
              last.pre.patients[i].last_name>> #
            <<last.payload.first_name, last.payload.last_name>>

\* C23: identity comparison ignores letter case and a case-only difference
\* rewrites nothing: when the submitted provider or patient names differ
\* from the stored ones in letter case alone, no identity conflict is
\* reported, the call goes on without any identity flag, and the stored
\* Provider and Patient names keep their casing.
C23_CaseOnlyDifferenceIsNoConflict ==
    (IntakeDone /\ CaseOnlyDifference)
    => /\ "provider" \notin Issues
       /\ "patient" \notin Issues
       /\ last.resp.status = 200 \/ Issues = {"order"}
       /\ \A i \in DOMAIN last.pre.providers :
            providers[i] = last.pre.providers[i]
       /\ \A i \in DOMAIN last.pre.patients :
            patients[i] = last.pre.patients[i]

\* a request without flags whose provider and patient names differ from the
\* stored ones in case alone went through; the stored names are as before
C23_Witness ==
    /\ IntakeDone
    /\ WellFormedIds
    /\ NoneConfirmed(last.payload)
    /\ ~ProviderConflict
    /\ ~PatientConflict
    /\ \E i \in PriorProviders :
         /\ last.pre.providers[i].name # last.payload.referring_provider
         /\ providers[i].name = last.pre.providers[i].name
    /\ \E i \in PriorPatients :
         /\ last.pre.patients[i].first_name # last.payload.first_name
         /\ patients[i].first_name = last.pre.patients[i].first_name
    /\ last.resp.status = 200

\* C24: the duplicate-order check runs after identity is resolved and
\* against the resolved Patient: a call whose MRN is not stored (the call
\* creates the Patient) is never answered with the order 422, and a call
\* with a confirmed patient-name mismatch is checked against the Orders of
\* the stored Patient with that MRN.
C24_DuplicateCheckOnResolvedPatient ==
    /\ (IntakeDone /\ PriorPatients = {}) => "order" \notin Issues
    /\ (IntakeDone /\ PatientConflict
          /\ last.payload.confirm_patient_name_mismatch
          /\ ~(ProviderConflict
                 /\ ~last.payload.confirm_provider_name_mismatch))
       => /\ "order" \in Issues
               <=> DuplicateOrder /\ ~last.payload.confirm_duplicate_order
          /\ "order" \in Issues
               => \E i \in PriorPatients :
                     last.pre.orders[
                        last.resp.issues["order"].existing_order_id
                     ].patient = i
          /\ last.resp.status = 200
               => \E i \in PriorPatients :
                     /\ last.resp.patient_id = i
                     /\ orders[last.resp.order_id].patient = i

\* a confirmed patient-name mismatch stopped at the Order the stored
\* Patient already has
C24_Witness ==
    /\ IntakeDone
    /\ WellFormedIds
    /\ PatientConflict
    /\ last.payload.confirm_patient_name_mismatch
    /\ Issues = {"order"}
    /\ \E i \in PriorPatients :
         last.pre.orders[last.resp.issues["order"].existing_order_id].patient
             = i

\* C25: the confirmation protocol is bounded: a client alone on the store
\* that starts without flags and, after each 422, sets the flag of every
\* issue the 422 lists and sends the request again, is answered 200 after
\* at most two 422 answers, that is by its third submission at the latest;
\* and a request with all three flags set is never answered 422.
C25_BoundedConfirmation ==
    /\ client.mode = "confirm"
       => /\ client.resp.status \in {200, 422}
          /\ client.rejected <= 2
          /\ client.n >= 3 => client.resp.status = 200
    /\ (IntakeDone /\ AllConfirmed(last.payload)) => last.resp.status # 422

\* the longest run of the protocol: the identity 422, the order 422, then
\* the 200 with every flag set
C25_Witness ==
    /\ client.mode = "confirm"
    /\ client.n = 3
    /\ client.rejected = 2
    /\ client.resp.status = 200
    /\ AllConfirmed(client.payload)
    /\ MrnValid(client.payload.mrn)
    /\ NpiValid(client.payload.provider_npi)

\* C26: an intake call creates one Order when it answers 200 and none
\* otherwise, and at most one Provider and one Patient; no call deletes an
\* Order, a Patient or a Provider or changes a stored Order, so the three
\* tables only grow.
C26_OneOrderPerSuccessTablesGrow ==
    /\ IntakeDone
       => /\ Len(orders) = Len(last.pre.orders)
                             + (IF last.resp.status = 200 THEN 1 ELSE 0)
          /\ Len(providers) - Len(last.pre.providers) \in {0, 1}
          /\ Len(patients) - Len(last.pre.patients) \in {0, 1}
    /\ last # NoCall
       => /\ Len(providers) >= Len(last.pre.providers)
          /\ Len(patients) >= Len(last.pre.patients)
          /\ Len(orders) >= Len(last.pre.orders)
          /\ \A o \in DOMAIN last.pre.orders : orders[o] = last.pre.orders[o]

\* a successful intake call on a store that already held an Order added a
\* Patient and that Patient's Order
C26_Witness ==
    /\ IntakeDone
    /\ WellFormedIds
    /\ last.resp.status = 200
    /\ Len(last.pre.orders) = 1
    /\ Len(orders) = 2
    /\ Len(patients) = Len(last.pre.patients) + 1
    /\ orders[2].patient = Len(patients)

ConfirmFlags ==
    {"confirm_provider_name_mismatch", "confirm_patient_name_mismatch",
     "confirm_duplicate_order"}

\* the conflict a flag confirms was not detected by the call: it is absent
\* from the store, or (the duplicate order) the call stopped before looking
NotDetected(flag) ==
    CASE flag = "confirm_provider_name_mismatch" -> ~ProviderConflict
      [] flag = "confirm_patient_name_mismatch" -> ~PatientConflict
      [] flag = "confirm_duplicate_order" ->
            ~DuplicateOrder \/ UnconfirmedIdentityConflict

\* the call just made, run again on the same store with one flag flipped
Flipped(flag) ==
    create_patient_run(last.pre,
                       NewCall([last.payload EXCEPT ![flag] = ~@]))

\* C27: a confirm flag is inert when its conflict is absent: for any store
\* and request in which a conflict is not detected, the answer and the
\* resulting store are the same whether the flag of that conflict is true
\* or false; in particular confirm_provider_name_mismatch = true changes no
\* Provider name unless the stored and submitted names differ beyond
\* letter case.
C27_FlagInertWithoutConflict ==
    IntakeDone
    => /\ \A flag \in ConfirmFlags :
            NotDetected(flag)
            => LET r == Flipped(flag)
               IN  /\ r.c.resp = last.resp
                   /\ r.db.providers = providers
                   /\ r.db.patients = patients
                   /\ r.db.orders = orders
       /\ (last.payload.confirm_provider_name_mismatch /\ ~ProviderConflict)
          => \A i \in DOMAIN last.pre.providers :
                providers[i].name = last.pre.providers[i].name

\* every flag set on a request that meets the stored provider and patient
\* under names differing in case alone, and a new medication
C27_Witness ==
    /\ IntakeDone
    /\ WellFormedIds
    /\ AllConfirmed(last.payload)
    /\ CaseOnlyDifference
    /\ PriorProviders # {}
    /\ PriorPatients # {}
    /\ ~DuplicateOrder
    /\ last.resp.status = 200

\* C28: an intake call that reuses a stored Patient (found by MRN) leaves
\* every field of that Patient as it was, names, diagnoses, medication
\* history, records_text and the provider reference, also when the
\* submitted provider_npi is another Provider's; the Provider the call
\* created or updated is not linked to the Patient, and the one row added
\* for the Patient is the new Order.
C28_ReusedPatientUntouched ==
    (IntakeDone /\ PriorPatients # {})
    => /\ patients = last.pre.patients
       /\ \A i \in PriorPatients :
            /\ providers[patients[i].provider].npi # last.payload.provider_npi
                 => \A j \in DOMAIN providers :
                       providers[j].npi = last.payload.provider_npi
                       => patients[i].provider # j
            /\ orders = IF last.resp.status = 200
                        THEN Append(last.pre.orders,
                                    [patient |-> i,
                                     medication_name |->
                                         last.payload.medication_name])
                        ELSE last.pre.orders

\* the stored Patient came back under the NPI of a Provider the call had to
\* create: the Patient still points at its first Provider
C28_Witness ==
    /\ IntakeDone
    /\ WellFormedIds
    /\ last.resp.status = 200
    /\ Len(providers) = Len(last.pre.providers) + 1
    /\ providers[Len(providers)].npi = last.payload.provider_npi
    /\ \E i \in PriorPatients :
         /\ patients[i].provider # Len(providers)
         /\ patients[i] = last.pre.patients[i]
         /\ orders[last.resp.order_id].patient = i

\* C29: POST /orders for a stored patient always creates one Order and
\* answers 200, without any confirmation gate; the response carries a
\* warning exactly when the Patient already had an Order of that medication
\* (letter case apart) before the call.
C29_OrderPathAlwaysCreates ==
    (last.op = "create_order"
       /\ last.payload.patient_id \in DOMAIN last.pre.patients)
    => /\ last.resp.status = 200
       /\ orders = Append(last.pre.orders,
                          [patient |-> last.payload.patient_id,
                           medication_name |-> last.payload.medication_name])
       /\ last.resp.id = Len(orders)
       /\ last.resp.patient_id = last.payload.patient_id
       /\ providers = last.pre.providers
       /\ patients = last.pre.patients
       /\ last.resp.warning
            <=> \E o \in DOMAIN last.pre.orders :
                   /\ last.pre.orders[o].patient = last.payload.patient_id
                   /\ SameIgnoringCase(last.pre.orders[o].medication_name,
                                       last.payload.medication_name)

\* an Order of a medication the Patient already has under another casing
\* went in with a warning
C29_Witness ==
    /\ last.op = "create_order"
    /\ last.resp.status = 200
    /\ last.resp.warning
    /\ Len(orders) = 2
    /\ orders[1].patient = orders[2].patient
    /\ orders[1].medication_name # orders[2].medication_name
    /\ MrnValid(patients[orders[2].patient].mrn)

====
